---- MODULE Spec2Model ----
(***************************************************************************)
(* Password Generator API (src/main.py): GET /generate and POST /generate  *)
(* derive a password as a prefix of the SHA-256 hex digest of              *)
(* phrase + str(int(time.time())).                                         *)
(*                                                                         *)
(* A Python str is modelled as a sequence of Unicode code points, a bytes  *)
(* object as a sequence of integers 0..255, and a 32-bit word of the hash  *)
(* as a pair <<hi, lo>> of 16-bit halves.                                  *)
(***************************************************************************)
EXTENDS Integers, Sequences, FiniteSets, TLC

(***************************************************************************)
(* Bounds of the model.                                                    *)
(***************************************************************************)
\* first clock second of a behaviour
StartTime == 1700000000
\* the clock advances at most this many seconds
MaxTicks == 2
\* longest explicitly supplied phrase, in characters
MaxPhraseLen == 3
\* how far beyond each end of the accepted range the requested lengths go
Probe == 1

(***************************************************************************)
(* str and bytes.                                                          *)
(***************************************************************************)
RECURSIVE DecimalDigits(_)
\* digits of a positive integer, most significant first, as code points
DecimalDigits(n) ==
    IF n = 0 THEN << >> ELSE Append(DecimalDigits(n \div 10), 48 + (n % 10))

\* str(n) for an integer n
Str(n) ==
    IF n = 0 THEN <<48>>
    ELSE IF n < 0 THEN <<45>> \o DecimalDigits(0 - n)
    ELSE DecimalDigits(n)

\* UTF-8 encoding of one code point (a Unicode scalar value)
EncodeChar(c) ==
    IF c < 128 THEN <<c>>
    ELSE IF c < 2048 THEN <<192 + (c \div 64), 128 + (c % 64)>>
    ELSE IF c < 65536 THEN
        <<224 + (c \div 4096), 128 + ((c \div 64) % 64), 128 + (c % 64)>>
    ELSE <<240 + (c \div 262144), 128 + ((c \div 4096) % 64),
           128 + ((c \div 64) % 64), 128 + (c % 64)>>

RECURSIVE Encode(_)
\* s.encode('utf-8')
Encode(s) ==
    IF s = << >> THEN << >> ELSE EncodeChar(Head(s)) \o Encode(Tail(s))

(***************************************************************************)
(* SHA-256 (FIPS 180-4) on words <<hi, lo>>.                               *)
(***************************************************************************)
RECURSIVE Pow2(_)
Pow2(n) == IF n = 0 THEN 1 ELSE 2 * Pow2(n - 1)

RECURSIVE Xor16(_, _, _)
\* bitwise exclusive or of the low n bits of a and b
Xor16(a, b, n) ==
    IF n = 0 THEN 0
    ELSE ((a + b) % 2) + 2 * Xor16(a \div 2, b \div 2, n - 1)

RECURSIVE And16(_, _, _)
\* bitwise and of the low n bits of a and b
And16(a, b, n) ==
    IF n = 0 THEN 0
    ELSE ((a % 2) * (b % 2)) + 2 * And16(a \div 2, b \div 2, n - 1)

\* four-bit tables of the two bitwise operations
XorTab == [a \in 0..15 |-> [b \in 0..15 |-> Xor16(a, b, 4)]]
AndTab == [a \in 0..15 |-> [b \in 0..15 |-> And16(a, b, 4)]]

Nib(x, i) == (x \div Pow2(4 * i)) % 16

XorHalf(a, b) ==
    XorTab[Nib(a, 0)][Nib(b, 0)] + 16 * XorTab[Nib(a, 1)][Nib(b, 1)]
    + 256 * XorTab[Nib(a, 2)][Nib(b, 2)] + 4096 * XorTab[Nib(a, 3)][Nib(b, 3)]

AndHalf(a, b) ==
    AndTab[Nib(a, 0)][Nib(b, 0)] + 16 * AndTab[Nib(a, 1)][Nib(b, 1)]
    + 256 * AndTab[Nib(a, 2)][Nib(b, 2)] + 4096 * AndTab[Nib(a, 3)][Nib(b, 3)]

WXor(x, y) == <<XorHalf(x[1], y[1]), XorHalf(x[2], y[2])>>
WAnd(x, y) == <<AndHalf(x[1], y[1]), AndHalf(x[2], y[2])>>
WNot(x) == <<65535 - x[1], 65535 - x[2]>>

\* addition modulo 2^32
WAdd(x, y) ==
    <<(x[1] + y[1] + ((x[2] + y[2]) \div 65536)) % 65536,
      (x[2] + y[2]) % 65536>>

\* rotate right by n, 0 < n < 32
RotR(x, n) ==
    LET y == IF n >= 16 THEN <<x[2], x[1]>> ELSE x
        m == n % 16
    IN  IF m = 0 THEN y
        ELSE <<(y[1] \div Pow2(m)) + (y[2] % Pow2(m)) * Pow2(16 - m),
               (y[2] \div Pow2(m)) + (y[1] % Pow2(m)) * Pow2(16 - m)>>

\* shift right by n, 0 < n < 16
ShR(x, n) ==
    <<x[1] \div Pow2(n),
      (x[2] \div Pow2(n)) + (x[1] % Pow2(n)) * Pow2(16 - n)>>

Ch(x, y, z) == WXor(WAnd(x, y), WAnd(WNot(x), z))
Maj(x, y, z) == WXor(WXor(WAnd(x, y), WAnd(x, z)), WAnd(y, z))
BigSigma0(x) == WXor(WXor(RotR(x, 2), RotR(x, 13)), RotR(x, 22))
BigSigma1(x) == WXor(WXor(RotR(x, 6), RotR(x, 11)), RotR(x, 25))
SmallSigma0(x) == WXor(WXor(RotR(x, 7), RotR(x, 18)), ShR(x, 3))
SmallSigma1(x) == WXor(WXor(RotR(x, 17), RotR(x, 19)), ShR(x, 10))

\* initial hash value
H0 == <<
    <<27145, 58983>>, <<47975, 44677>>, <<15470, 62322>>, <<42319, 62778>>,
    <<20750, 21119>>, <<39685, 26764>>, <<8067, 55723>>, <<23520, 52505>>>>

\* round constants
K256 == <<
    <<17034, 12184>>, <<28983, 17553>>, <<46528, 64463>>, <<59829, 56229>>,
    <<14678, 49755>>, <<23025, 4593>>, <<37439, 33444>>, <<43804, 24277>>,
    <<55303, 43672>>, <<4739, 23297>>, <<9265, 34238>>, <<21772, 32195>>,
    <<29374, 23924>>, <<32990, 45566>>, <<39900, 1703>>, <<49563, 61812>>,
    <<58523, 27073>>, <<61374, 18310>>, <<4033, 40390>>, <<9228, 41420>>,
    <<11753, 11375>>, <<19060, 33962>>, <<23728, 43484>>, <<30457, 35034>>,
    <<38974, 20818>>, <<43057, 50797>>, <<45059, 10184>>, <<48985, 32711>>,
    <<50912, 3059>>, <<54695, 37191>>, <<1738, 25425>>, <<5161, 10599>>,
    <<10167, 2693>>, <<11803, 8504>>, <<19756, 28156>>, <<21304, 3347>>,
    <<25866, 29524>>, <<30314, 2747>>, <<33218, 51502>>, <<37490, 11397>>,
    <<41663, 59553>>, <<43034, 26187>>, <<49739, 35696>>, <<51052, 20899>>,
    <<53650, 59417>>, <<54937, 1572>>, <<62478, 13701>>, <<4202, 41072>>,
    <<6564, 49430>>, <<7735, 27656>>, <<10056, 30540>>, <<13488, 48309>>,
    <<14620, 3251>>, <<20184, 43594>>, <<23452, 51791>>, <<26670, 28659>>,
    <<29839, 33518>>, <<30885, 25455>>, <<33992, 30740>>, <<36039, 520>>,
    <<37054, 65530>>, <<42064, 27883>>, <<48889, 41975>>, <<50801, 30962>>>>

\* message followed by the bit 1, zero bits up to 56 modulo 64 bytes, and
\* the message length in bits as a 64-bit big-endian integer
Pad(msg) ==
    LET n == Len(msg)
        zeros == (119 - (n % 64)) % 64
        bits == 8 * n
    IN  msg \o <<128>> \o [i \in 1..zeros |-> 0]
            \o <<0, 0, 0, 0, (bits \div 16777216) % 256,
                 (bits \div 65536) % 256, (bits \div 256) % 256, bits % 256>>

\* the 16 big-endian words of the 64-byte block b
BlockWords(b) ==
    [i \in 1..16 |-> <<256 * b[4 * i - 3] + b[4 * i - 2],
                       256 * b[4 * i - 1] + b[4 * i]>>]

RECURSIVE Schedule(_)
\* message schedule: extends the 16 block words to 64
Schedule(W) ==
    IF Len(W) = 64 THEN W
    ELSE LET t == Len(W) + 1
         IN  Schedule(Append(W,
                 WAdd(WAdd(SmallSigma1(W[t - 2]), W[t - 7]),
                      WAdd(SmallSigma0(W[t - 15]), W[t - 16]))))

\* one round on the working variables v = <<a, b, c, d, e, f, g, h>> with
\* schedule word w and round constant k
Round(v, w, k) ==
    LET T1 == WAdd(WAdd(WAdd(v[8], BigSigma1(v[5])),
                        WAdd(Ch(v[5], v[6], v[7]), k)), w)
        T2 == WAdd(BigSigma0(v[1]), Maj(v[1], v[2], v[3]))
    IN  <<WAdd(T1, T2), v[1], v[2], v[3], WAdd(v[4], T1), v[5], v[6], v[7]>>

RECURSIVE Rounds(_, _)
\* vs is the sequence of values the working variables take, from the value
\* before round 1; extends it to the value after round 64
Rounds(vs, W) ==
    IF Len(vs) = 65 THEN vs
    ELSE LET t == Len(vs)
         IN  Rounds(Append(vs, Round(vs[t], W[t], K256[t])), W)

\* hash value after the block b
Compress(h, b) ==
    LET v == Rounds(<<h>>, Schedule(BlockWords(b)))[65]
    IN  [i \in 1..8 |-> WAdd(h[i], v[i])]

RECURSIVE Blocks(_, _)
Blocks(h, p) ==
    IF p = << >> THEN h
    ELSE Blocks(Compress(h, SubSeq(p, 1, 64)), SubSeq(p, 65, Len(p)))

\* variant: uppercase digits, as '%X' would give
HexChar_upper(d) == IF d < 10 THEN 48 + d ELSE 55 + d

\* code point of the lowercase hexadecimal digit of d in 0..15
HexChar(d) == IF d < 10 THEN 48 + d ELSE 87 + d

HexHalf(x) == <<HexChar(Nib(x, 3)), HexChar(Nib(x, 2)),
                HexChar(Nib(x, 1)), HexChar(Nib(x, 0))>>

RECURSIVE HexWords(_)
HexWords(ws) ==
    IF ws = << >> THEN << >>
    ELSE HexHalf(Head(ws)[1]) \o HexHalf(Head(ws)[2]) \o HexWords(Tail(ws))

\* sha256(data).hexdigest()
Sha256Hex(data) == HexWords(Blocks(H0, Pad(data)))

(***************************************************************************)
(* The service: constants of src/main.py.                                  *)
(***************************************************************************)
\* "The Tomb of Saint Nicholas", default of the query parameter phrase
DefaultPhraseGet == <<
    84, 104, 101, 32, 84, 111, 109, 98, 32, 111, 102, 32, 83, 97, 105,
    110, 116, 32, 78, 105, 99, 104, 111, 108, 97, 115 >>

\* variant: the model's default spelled "the tomb of saint nicholas"
DefaultPhrasePost_lower == <<
    116, 104, 101, 32, 116, 111, 109, 98, 32, 111, 102, 32, 115, 97,
    105, 110, 116, 32, 110, 105, 99, 104, 111, 108, 97, 115 >>

\* "The Tomb of Saint Nicholas", default of PasswordRequest.phrase
DefaultPhrasePost == <<
    84, 104, 101, 32, 84, 111, 109, 98, 32, 111, 102, 32, 83, 97, 105,
    110, 116, 32, 78, 105, 99, 104, 111, 108, 97, 115 >>

\* Query(..., ge=1, le=64)
QueryGe == 1
QueryLe == 64

\* request.length < 1 or request.length > 64
PostMin == 1
PostMax == 64

(***************************************************************************)
(* Inputs of the model.                                                    *)
(***************************************************************************)
\* the request slots; determinism relates two requests
Reqs == {"r1", "r2"}

\* clock seconds of a behaviour
Times == StartTime..(StartTime + MaxTicks)

\* U+1F600, U+20AC, U+00E9 and "a": 4, 3, 2 and 1 bytes in UTF-8
SamplePhrase == <<128512, 8364, 233, 97>>

\* phrases a caller supplies explicitly: the prefixes of the sample, the
\* empty phrase among them, and the text of the defaults
Phrases ==
    {SubSeq(SamplePhrase, 1, n) : n \in 0..MaxPhraseLen}
        \cup {DefaultPhraseGet, DefaultPhrasePost}

StrArg(p) == [kind |-> "str", val |-> p]
Omitted == [kind |-> "omitted", val |-> << >>]
JsonNull == [kind |-> "null", val |-> << >>]
\* value None of an Optional[str]
PyNone == [kind |-> "none", val |-> << >>]

\* the query parameter phrase is a string or absent
GetPhraseInputs == {StrArg(p) : p \in Phrases} \cup {Omitted}
\* the body member phrase is a string, absent or null
PostPhraseInputs == {StrArg(p) : p \in Phrases} \cup {Omitted, JsonNull}

\* requested lengths: around both ends of the accepted range and inside it
LengthInputs == ((1 - Probe)..1) \cup {8} \cup (64..(64 + Probe))

(***************************************************************************)
(* Python operations the handlers use.                                     *)
(***************************************************************************)
\* s[0:n]
PySlice(s, n) ==
    IF n >= 0 THEN SubSeq(s, 1, IF n < Len(s) THEN n ELSE Len(s))
    ELSE SubSeq(s, 1, IF Len(s) + n > 0 THEN Len(s) + n ELSE 0)

\* strings phrase + str(epoch_time) of the requests of the model
InputStrings == {p \o Str(t) : p \in Phrases, t \in Times}

\* digests of the input strings of the model, computed once
DigestTable == [u \in InputStrings |-> Sha256Hex(Encode(u))]

\* sha256(input_string.encode('utf-8')).hexdigest()
HexDigest(input_string) ==
    IF input_string \in InputStrings THEN DigestTable[input_string]
    ELSE Sha256Hex(Encode(input_string))

(***************************************************************************)
(* State.                                                                  *)
(***************************************************************************)
VARIABLES
    now,    \* int(time.time()): the clock, in epoch seconds
    req     \* req[r]: the request in slot r and the locals of its handler

vars == <<now, req>>

NoResponse == [status |-> 0, password |-> << >>, timestamp |-> 0,
               length |-> 0, detail |-> [kind |-> "none"]]

\* an empty slot
Idle == [pc |-> "idle", binding |-> "none", direct |-> FALSE,
         lengthIn |-> 0, phraseIn |-> Omitted,
         length |-> 0, phrase |-> PyNone,
         epoch_time |-> 0, input_string |-> << >>, hash_digest |-> << >>,
         trace |-> << >>, resp |-> NoResponse]

Init ==
    /\ now = StartTime
    /\ req = [r \in Reqs |-> Idle]

(***************************************************************************)
(* Responses.                                                              *)
(***************************************************************************)
\* PasswordResponse(password=..., timestamp=..., length=...)
PasswordResponse(password, timestamp, length) ==
    [status |-> 200, password |-> password, timestamp |-> timestamp,
     length |-> length, detail |-> [kind |-> "none"]]

\* HTTPException(status_code=..., detail=...)
HTTPException(status, detail) ==
    [status |-> status, password |-> << >>, timestamp |-> 0,
     length |-> 0, detail |-> detail]

\* the 422 response of a request that fails the declared validation
RequestValidationError(loc) ==
    HTTPException(422, [kind |-> "validation", loc |-> loc])

\* "Length must be between 1 and 64 characters"
LengthRangeDetail == [kind |-> "length_range"]

\* f"Requested length ({length}) exceeds maximum hash length ({len})"
ExceedsHashDetail(length, max) ==
    [kind |-> "exceeds_hash", length |-> length, max |-> max]

\* f"Error generating password: {str(e)}"
ErrorGeneratingDetail(e) == [kind |-> "error_generating", cause |-> e]

\* except Exception as e: raise HTTPException(status_code=500, ...)
ExceptException(e) == HTTPException(500, ErrorGeneratingDetail(e))

\* classes the clause "except Exception" catches
ExceptionSubclasses == {"TypeError", "HTTPException"}

\* an exception e raised inside the try block: the except clause replaces
\* every Exception by the 500 response; anything else propagates
TryExcept(e) ==
    IF e.class \in ExceptionSubclasses THEN ExceptException(e.class)
    ELSE HTTPException(e.status, e.detail)

(***************************************************************************)
(* GET /generate: generate_password.                                       *)
(***************************************************************************)
\* variant: Query(..., ge=1), the upper limit left out
QueryRejects_noUpper(length) == length < QueryGe

\* length = Query(..., ge=1, le=64): the declared range rejects the value
QueryRejects(length) == length < QueryGe \/ length > QueryLe

\* phrase = Query("The Tomb of Saint Nicholas"): the argument of the handler
GetPhraseArg(phraseIn) ==
    IF phraseIn.kind = "omitted" THEN StrArg(DefaultPhraseGet) ELSE phraseIn

\* input_string = phrase + str(epoch_time)
GetInputString(phrase, epoch_time) == phrase.val \o Str(epoch_time)

\* variant: hash_digest[-length:], the last length characters
GetPassword_suffix(hash_digest, length) ==
    SubSeq(hash_digest, Len(hash_digest) - length + 1, Len(hash_digest))

\* password = hash_digest[0:length]
GetPassword(hash_digest, length) == PySlice(hash_digest, length)

\* variant: timestamp=int(time.time()), a second read of the clock
GetResponse_reread(q) ==
    PasswordResponse(GetPassword(q.hash_digest, q.length), now, q.length)

\* return PasswordResponse(password=password, timestamp=epoch_time,
\*                         length=length)
GetResponse(q) ==
    PasswordResponse(GetPassword(q.hash_digest, q.length),
                     q.epoch_time, q.length)

(***************************************************************************)
(* POST /generate: generate_password_post.                                 *)
(***************************************************************************)
\* variant: only request.length < 1 is checked
PostRejects_noUpper(length) == length < PostMin

\* request.length < 1 or request.length > 64
PostRejects(length) == length < PostMin \/ length > PostMax

\* PasswordRequest.phrase: Optional[str] with a default
PostPhraseArg(phraseIn) ==
    IF phraseIn.kind = "omitted" THEN StrArg(DefaultPhrasePost)
    ELSE IF phraseIn.kind = "null" THEN PyNone
    ELSE phraseIn

\* input_string = request.phrase + str(epoch_time)
PostInputString(phrase, epoch_time) == phrase.val \o Str(epoch_time)

\* password = hash_digest[0:request.length]
PostPassword(hash_digest, length) == PySlice(hash_digest, length)

\* variant: timestamp=int(time.time()), a second read of the clock
PostResponse_reread(q) ==
    PasswordResponse(PostPassword(q.hash_digest, q.length), now, q.length)

\* return PasswordResponse(password=password, timestamp=epoch_time,
\*                         length=request.length)
PostResponse(q) ==
    PasswordResponse(PostPassword(q.hash_digest, q.length),
                     q.epoch_time, q.length)

(***************************************************************************)
(* Actions.                                                                *)
(***************************************************************************)
\* the clock passes to the next second
Tick ==
    /\ now < StartTime + MaxTicks
    /\ now' = now + 1
    /\ UNCHANGED req

\* a GET /generate request arrives
GetRequest(r, length, phraseIn) ==
    /\ req[r].pc = "idle"
    /\ req' = [req EXCEPT ![r] = [Idle EXCEPT !.pc = "received",
                   !.binding = "GET", !.lengthIn = length,
                   !.phraseIn = phraseIn]]
    /\ UNCHANGED now

\* a POST /generate request arrives
PostRequest(r, length, phraseIn) ==
    /\ req[r].pc = "idle"
    /\ req' = [req EXCEPT ![r] = [Idle EXCEPT !.pc = "received",
                   !.binding = "POST", !.lengthIn = length,
                   !.phraseIn = phraseIn]]
    /\ UNCHANGED now

\* generate_password is called on its own, not through the route: no
\* Query validation precedes it
DirectCall(r, length, phrase) ==
    /\ req[r].pc = "idle"
    /\ req' = [req EXCEPT ![r] = [Idle EXCEPT !.pc = "try",
                   !.binding = "GET", !.direct = TRUE,
                   !.lengthIn = length, !.phraseIn = StrArg(phrase),
                   !.length = length, !.phrase = StrArg(phrase),
                   !.trace = <<"call">>]]
    /\ UNCHANGED now

\* the route validates the query parameters and calls generate_password
GetValidate(r) ==
    LET q == req[r]
    IN  /\ q.pc = "received"
        /\ q.binding = "GET"
        /\ req' = [req EXCEPT ![r] =
               IF QueryRejects(q.lengthIn)
               THEN [q EXCEPT !.pc = "done",
                        !.trace = <<"reject">>,
                        !.resp = RequestValidationError(<<"query", "length">>)]
               ELSE [q EXCEPT !.pc = "try",
                        !.trace = <<"validate">>,
                        !.length = q.lengthIn,
                        !.phrase = GetPhraseArg(q.phraseIn)]]
        /\ UNCHANGED now

\* the body is parsed into a PasswordRequest and generate_password_post
\* checks request.length
PostValidate(r) ==
    LET q == req[r]
    IN  /\ q.pc = "received"
        /\ q.binding = "POST"
        /\ req' = [req EXCEPT ![r] =
               IF PostRejects(q.lengthIn)
               THEN [q EXCEPT !.pc = "done",
                        !.trace = <<"reject">>,
                        !.length = q.lengthIn,
                        !.phrase = PostPhraseArg(q.phraseIn),
                        !.resp = HTTPException(400, LengthRangeDetail)]
               ELSE [q EXCEPT !.pc = "try",
                        !.trace = <<"validate">>,
                        !.length = q.lengthIn,
                        !.phrase = PostPhraseArg(q.phraseIn)]]
        /\ UNCHANGED now

\* epoch_time = int(time.time())
ReadClock(r) ==
    LET q == req[r]
    IN  /\ q.pc = "try"
        /\ req' = [req EXCEPT ![r] = [q EXCEPT !.pc = "clock",
                       !.trace = Append(q.trace, "clock"),
                       !.epoch_time = now]]
        /\ UNCHANGED now

\* input_string = phrase + str(epoch_time)
\* hash_digest = sha256(input_string.encode('utf-8')).hexdigest()
\* None + str raises TypeError
ComputeDigest(r) ==
    LET q == req[r]
        input_string == IF q.binding = "GET"
                        THEN GetInputString(q.phrase, q.epoch_time)
                        ELSE PostInputString(q.phrase, q.epoch_time)
    IN  /\ q.pc = "clock"
        /\ req' = [req EXCEPT ![r] =
               IF q.phrase.kind = "none"
               THEN [q EXCEPT !.pc = "done",
                        !.trace = Append(q.trace, "except"),
                        !.resp = TryExcept([class |-> "TypeError"])]
               ELSE [q EXCEPT !.pc = "hashed",
                        !.trace = Append(q.trace, "hash"),
                        !.input_string = input_string,
                        !.hash_digest = HexDigest(input_string)]]
        /\ UNCHANGED now

\* if length > len(hash_digest): raise HTTPException(status_code=400, ...)
\* otherwise the password is cut and the response returned
Respond(r) ==
    LET q == req[r]
    IN  /\ q.pc = "hashed"
        /\ req' = [req EXCEPT ![r] =
               IF q.length > Len(q.hash_digest)
               THEN [q EXCEPT !.pc = "done",
                        !.trace = q.trace \o <<"guard", "except">>,
                        !.resp = TryExcept([class |-> "HTTPException",
                            status |-> 400,
                            detail |-> ExceedsHashDetail(q.length,
                                           Len(q.hash_digest))])]
               ELSE [q EXCEPT !.pc = "done",
                        !.trace = Append(q.trace, "return"),
                        !.resp = IF q.binding = "GET" THEN GetResponse(q)
                                 ELSE PostResponse(q)]]
        /\ UNCHANGED now

\* the response is sent and the request and its result are discarded
Complete(r) ==
    /\ req[r].pc = "done"
    /\ req' = [req EXCEPT ![r] = Idle]
    /\ UNCHANGED now

Next ==
    \/ Tick
    \/ \E r \in Reqs, length \in LengthInputs, p \in GetPhraseInputs :
           GetRequest(r, length, p)
    \/ \E r \in Reqs, length \in LengthInputs, p \in PostPhraseInputs :
           PostRequest(r, length, p)
    \/ \E r \in Reqs : GetValidate(r)
    \/ \E r \in Reqs : PostValidate(r)
    \/ \E r \in Reqs : ReadClock(r)
    \/ \E r \in Reqs : ComputeDigest(r)
    \/ \E r \in Reqs : Respond(r)
    \/ \E r \in Reqs : Complete(r)

Spec == Init /\ [][Next]_vars

\* the service together with calls of generate_password that do not come
\* through the route
NextDirect ==
    \/ Next
    \/ \E r \in Reqs, length \in LengthInputs, p \in Phrases :
           DirectCall(r, length, p)

SpecDirect == Init /\ [][NextDirect]_vars

(***************************************************************************)
(* Properties.                                                             *)
(***************************************************************************)
Done(r) == req[r].pc = "done"
Succeeded(r) == Done(r) /\ req[r].resp.status = 200
\* the request came through the route
Routed(r) == req[r].binding # "none" /\ ~req[r].direct
InRange(n) == n \in 1..64
\* code points of 0-9 and a-f
HexAlphabet == (48..57) \cup (97..102)
Steps(r) == {req[r].trace[i] : i \in 1..Len(req[r].trace)}
\* the text "The Tomb of Saint Nicholas"
TombLiteral == <<
    84, 104, 101, 32, 84, 111, 109, 98, 32, 111, 102, 32, 83, 97, 105,
    110, 116, 32, 78, 105, 99, 104, 111, 108, 97, 115 >>

C2_PrefixOfDigest ==
    /\ \A r \in Reqs :
           Succeeded(r) =>
               LET digest == HexDigest(req[r].phrase.val
                                           \o Str(req[r].epoch_time))
               IN  /\ Len(digest) = 64
                   /\ req[r].resp.password = SubSeq(digest, 1, req[r].length)
    /\ \A r1, r2 \in Reqs :
           (Succeeded(r1) /\ Succeeded(r2)
               /\ req[r1].phrase = req[r2].phrase
               /\ req[r1].epoch_time = req[r2].epoch_time
               /\ req[r1].length <= req[r2].length)
           => req[r1].resp.password
                  = SubSeq(req[r2].resp.password, 1, req[r1].length)

\* one phrase hashed in one second, answered for length 8 on GET and for
\* length 64 on POST
C2_Witness ==
    /\ Succeeded("r1") /\ Succeeded("r2")
    /\ req["r1"].binding = "GET" /\ req["r2"].binding = "POST"
    /\ req["r1"].phrase = req["r2"].phrase
    /\ req["r1"].epoch_time = req["r2"].epoch_time
    /\ req["r1"].length = 8 /\ req["r2"].length = 64

C4_SameRejection ==
    \A r1, r2 \in Reqs :
        (Done(r1) /\ Done(r2) /\ Routed(r1) /\ Routed(r2)
            /\ req[r1].binding = "GET" /\ req[r2].binding = "POST"
            /\ ~InRange(req[r1].lengthIn)
            /\ req[r1].lengthIn = req[r2].lengthIn)
        => /\ req[r1].resp.status = 400
           /\ req[r2].resp.status = 400
           /\ req[r1].resp.detail.kind = req[r2].resp.detail.kind

\* C5: two successful requests with the same phrase and length whose clock
\* reads fall in the same second return the same password and the same
\* timestamp, whatever the interleaving and the bindings.
C5_Determinism ==
    \A r1, r2 \in Reqs :
        (Succeeded(r1) /\ Succeeded(r2)
            /\ req[r1].phrase = req[r2].phrase
            /\ req[r1].length = req[r2].length
            /\ req[r1].epoch_time = req[r2].epoch_time)
        => /\ req[r1].resp.password = req[r2].resp.password
           /\ req[r1].resp.timestamp = req[r2].resp.timestamp

\* a GET and a POST read the clock in the same second and were answered,
\* the POST only after the clock had moved on
C5_Witness ==
    /\ Succeeded("r1") /\ Succeeded("r2")
    /\ req["r1"].binding = "GET" /\ req["r2"].binding = "POST"
    /\ req["r1"].phrase = req["r2"].phrase
    /\ req["r1"].length = req["r2"].length
    /\ req["r1"].epoch_time = req["r2"].epoch_time
    /\ now > req["r2"].epoch_time

\* C6: in a successful response timestamp is the second that was appended
\* to the phrase and hashed, the clock having been read once, and length is
\* the requested length.
C6_TimestampIsHashedSecond ==
    \A r \in Reqs :
        Succeeded(r) =>
            /\ req[r].resp.timestamp = req[r].epoch_time
            /\ req[r].input_string
                   = req[r].phrase.val \o Str(req[r].resp.timestamp)
            /\ req[r].resp.password
                   = PySlice(HexDigest(req[r].input_string), req[r].lengthIn)
            /\ Cardinality({i \in 1..Len(req[r].trace) :
                               req[r].trace[i] = "clock"}) = 1
            /\ req[r].resp.length = req[r].lengthIn

\* a request was answered after the clock had passed the second it read
C6_Witness ==
    \E r \in Reqs :
        /\ Succeeded(r)
        /\ now > req[r].epoch_time
        /\ req[r].resp.timestamp = req[r].epoch_time

\* C7: a request without phrase, on GET and on POST, gets the password of
\* a request that supplies "The Tomb of Saint Nicholas" in the same second
\* with the same length; an omitted-phrase GET and an omitted-phrase POST
\* of the same second and length get the same password.
C7_DefaultPhrase ==
    \A r1, r2 \in Reqs :
        (Succeeded(r1) /\ Succeeded(r2)
            /\ req[r1].phraseIn.kind = "omitted"
            /\ (req[r2].phraseIn.kind = "omitted"
                    \/ req[r2].phraseIn = StrArg(TombLiteral))
            /\ req[r1].lengthIn = req[r2].lengthIn
            /\ req[r1].epoch_time = req[r2].epoch_time)
        => req[r1].resp.password = req[r2].resp.password

\* a POST without phrase and a GET that supplies the literal, same second
\* and length, have been answered
C7_Witness ==
    /\ Succeeded("r1") /\ Succeeded("r2")
    /\ req["r1"].binding = "POST" /\ req["r1"].phraseIn.kind = "omitted"
    /\ req["r2"].binding = "GET" /\ req["r2"].phraseIn = StrArg(TombLiteral)
    /\ req["r1"].lengthIn = 64 /\ req["r2"].lengthIn = 64
    /\ req["r1"].epoch_time = req["r2"].epoch_time

\* C8: a routed request whose length is outside [1,64] never reads the
\* clock nor computes a hash: its handler is at no step of the derivation
\* and its rejection follows no such step.
C8_ValidationBeforeDerivation ==
    \A r \in Reqs :
        (Routed(r) /\ ~InRange(req[r].lengthIn)) =>
            /\ req[r].pc \in {"received", "done"}
            /\ Steps(r) \cap {"clock", "hash", "guard", "return"} = {}
            /\ req[r].epoch_time = 0
            /\ req[r].hash_digest = << >>

\* a POST of length 65 and a GET of length 0 have been rejected
C8_Witness ==
    /\ Done("r1") /\ req["r1"].binding = "POST" /\ req["r1"].lengthIn = 65
    /\ req["r1"].trace = <<"reject">>
    /\ Done("r2") /\ req["r2"].binding = "GET" /\ req["r2"].lengthIn = 0
    /\ req["r2"].trace = <<"reject">>

\* C9: whenever the digest-length guard fires in a handler the response is
\* a 400 whose detail names the requested length and the hash length.
C9_GuardIs400 ==
    \A r \in Reqs :
        (Done(r) /\ "guard" \in Steps(r)) =>
            /\ req[r].resp.status = 400
            /\ req[r].resp.detail.kind = "exceeds_hash"

\* C10: every POST whose body the request model accepts and whose length
\* is in [1,64] is answered 200 with a password, never 5xx.
C10_PostNeverInternalError ==
    \A r \in Reqs :
        (Done(r) /\ Routed(r) /\ req[r].binding = "POST"
            /\ InRange(req[r].lengthIn))
        => /\ req[r].resp.status = 200
           /\ Len(req[r].resp.password) = req[r].lengthIn

====
